---- MODULE Spec2Model ----
(***************************************************************************)
(* Model of pygmt/src/timestamp.py: Figure.timestamp builds the -U option  *)
(* of the "plot" module, validates the text parameter against the GMT      *)
(* version and hands the options to a Session.                             *)
(*                                                                         *)
(* Python strings whose characters the code inspects, formats or           *)
(* concatenates are sequences of one-character strings.  font and timefmt  *)
(* are only stored in a dictionary, they are opaque strings.               *)
(* Python values are records [t |-> type tag, v |-> payload].              *)
(***************************************************************************)
EXTENDS Integers, Sequences, FiniteSets, TLC

\* ------------------------------------------------------------------------
\* Bounds of the model
\* ------------------------------------------------------------------------

\* texts of MaxTextLen - MaxExtra .. MaxTextLen + MaxExtra characters are tried
MaxExtra == 2

\* ------------------------------------------------------------------------
\* Python values and string helpers
\* ------------------------------------------------------------------------

None == [t |-> "none", v |-> <<>>]

S(chars) == [t |-> "str", v |-> chars]

I(n) == [t |-> "int", v |-> n]

Tup(items) == [t |-> "tuple", v |-> items]

Digits == <<"0", "1", "2", "3", "4", "5", "6", "7", "8", "9">>

RECURSIVE IntToStr(_)
\* str(n) of a non-negative int: its decimal digits
IntToStr(n) ==
    IF n < 10 THEN <<Digits[n + 1]>>
    ELSE IntToStr(n \div 10) \o <<Digits[(n % 10) + 1]>>

\* str(x) / f"{x}" for a str or an int
Str(x) == IF x.t = "int" THEN IntToStr(x.v) ELSE x.v

\* a string of n copies of the character c
Rep(c, n) == [i \in 1..n |-> c]

\* Python's `c in s` for a one-character c
Contains(s, c) == \E i \in 1..Len(s) : s[i] = c

RECURSIVE Join(_, _)
\* sep.join(f"{item}" for item in items)
Join(sep, items) ==
    IF Len(items) = 0 THEN <<>>
    ELSE IF Len(items) = 1 THEN Str(items[1])
    ELSE Str(items[1]) \o sep \o Join(sep, Tail(items))

\* pygmt.helpers.is_nonstr_iter
is_nonstr_iter(x) == x.t = "tuple"

\* ------------------------------------------------------------------------
\* packaging.version.Version for release-only versions "N.N.N"
\* ------------------------------------------------------------------------

DigitVal(c) == CHOOSE d \in 0..9 : Digits[d + 1] = c

RECURSIVE ParseRelease(_, _, _)
\* the release tuple of a version string: split on ".", int() of each part
ParseRelease(s, cur, acc) ==
    IF Len(s) = 0 THEN Append(acc, cur)
    ELSE IF Head(s) = "." THEN ParseRelease(Tail(s), 0, Append(acc, cur))
    ELSE ParseRelease(Tail(s), cur * 10 + DigitVal(Head(s)), acc)

RECURSIVE StripZeros(_)
\* Version._key drops the trailing zeros of the release
StripZeros(r) ==
    IF Len(r) > 0 /\ r[Len(r)] = 0 THEN StripZeros(SubSeq(r, 1, Len(r) - 1))
    ELSE r

\* ord() of the characters a version string is made of
Ord(c) == IF c = "." THEN 46 ELSE 48 + DigitVal(c)

\* the version string itself, so that the orderings compare strings
Version_asString(s) == [i \in 1..Len(s) |-> Ord(s[i])]

Version(s) == StripZeros(ParseRelease(s, 0, <<>>))

RECURSIVE TupleLT(_, _)
\* Python's tuple ordering
TupleLT(a, b) ==
    IF Len(b) = 0 THEN FALSE
    ELSE IF Len(a) = 0 THEN TRUE
    ELSE IF Head(a) # Head(b) THEN Head(a) < Head(b)
    ELSE TupleLT(Tail(a), Tail(b))

VersionLT(a, b) == TupleLT(a, b)

VersionLE(a, b) == a = b \/ TupleLT(a, b)

\* ------------------------------------------------------------------------
\* The pieces of timestamp()
\* ------------------------------------------------------------------------

\* the limit of `len(str(text)) > 64`
MaxTextLen == 64

V640 == <<"6", ".", "4", ".", "0">>

V650 == <<"6", ".", "5", ".", "0">>

\* kwdict["U"] += f"+j{justification}"
JustFragment(justification) == <<"+", "j">> \o Str(justification)

\* the quirk applied below 6.4.0 only
SingleOffsetQuirk_strict(offset, ver) ==
    /\ ~Contains(offset.v, "/")
    /\ VersionLT(Version(ver), Version(V640))

\* "/" not in offset and Version(__gmt_version__) <= Version("6.4.0")
SingleOffsetQuirk(offset, ver) ==
    /\ ~Contains(offset.v, "/")
    /\ VersionLE(Version(ver), Version(V640))

\* what `kwdict["U"] +=` appends for the offset
OffsetFragment(offset, ver) ==
    IF is_nonstr_iter(offset)
    THEN <<"+", "o">> \o Join(<<"/">>, offset.v)
    ELSE IF SingleOffsetQuirk(offset, ver)
         THEN <<"+", "o">> \o Str(offset) \o <<"/">> \o Str(offset)
         ELSE <<"+", "o">> \o Str(offset)

\* Version(__gmt_version__) < Version("6.5.0")
TextRequiresNewer(ver) == VersionLT(Version(ver), Version(V650))

\* the limit taken as exclusive
TextTooLong_exclusive(text) == Len(Str(text)) >= MaxTextLen

\* len(str(text)) > 64
TextTooLong(text) == Len(Str(text)) > MaxTextLen

\* kwdict["U"] += f"+t{text}"
TextFragment(text) == <<"+", "t">> \o Str(text)

\* the two settings stored under each other's key
ConfDict_swapped(font, timefmt) ==
    [FONT_LOGO |-> timefmt, FORMAT_TIME_STAMP |-> font]

\* confdict={"FONT_LOGO": font, "FORMAT_TIME_STAMP": timefmt}
ConfDict(font, timefmt) == [FONT_LOGO |-> font, FORMAT_TIME_STAMP |-> timefmt]

RequiresMsg == "The parameter 'text' requires GMT>=6.5.0."

TooLongMsg == "The parameter 'text' must be less than 64 characters."

NoError == [cls |-> "", msg |-> ""]

GMTInvalidInput(msg) == [cls |-> "GMTInvalidInput", msg |-> msg]

\* whatever the engine raises out of call_module
EngineError == [cls |-> "GMTCLibError", msg |-> "plot"]

\* a call to an external collaborator, as recorded in the call log
Ext(op, arg) == [op |-> op, arg |-> arg]

NoKwdict == [T |-> FALSE, U |-> <<>>]

\* ------------------------------------------------------------------------
\* Inputs
\* ------------------------------------------------------------------------

\* the release of the GMT library that is loaded
Engines ==
    { <<5, 4, 5>>, <<6, 3, 0>>, <<6, 4, 0>>, <<6, 4, 1>>,
      <<6, 5, 0>>, <<6, 10, 0>>, <<7, 0, 0>> }

\* the version string the library reports: "major.minor.patch"
VersionString(e) ==
    IntToStr(e[1]) \o <<".">> \o IntToStr(e[2]) \o <<".">> \o IntToStr(e[3])

Hello == <<"h", "e", "l", "l", "o">>

Texts ==
    { None, S(<<>>), S(Hello), I(12345) }
    \cup { S(Rep("x", n)) : n \in (MaxTextLen - MaxExtra)..(MaxTextLen + MaxExtra) }

PoweredBy ==
    <<"P", "o", "w", "e", "r", "e", "d", " ", "b", "y", " ",
      "P", "y", "G", "M", "T">>

Labels == { None, S(PoweredBy), I(2024) }

DefaultJustification == S(<<"B", "L">>)

\* justification is never validated: "Q" is not a justification code
Justifications == { DefaultJustification, S(<<"Q">>) }

M54p == <<"-", "5", "4", "p">>

DefaultOffset == Tup(<<S(M54p), S(M54p)>>)

Offsets ==
    { DefaultOffset,
      Tup(<<I(10), I(20)>>),
      Tup(<<S(<<"1", "c">>), S(<<"2", "c">>)>>),
      S(<<"1", "0", "p">>),
      S(<<"1", "c", "/", "2", "c">>) }

DefaultFont == "Helvetica,black"

Fonts == { DefaultFont, "12p,red" }

DefaultTimefmt == "%Y %b %d %H:%M:%S"

Timefmts == { DefaultTimefmt, "%Y" }

NoArgs ==
    [text |-> None, label |-> None, justification |-> DefaultJustification,
     offset |-> DefaultOffset, font |-> DefaultFont, timefmt |-> DefaultTimefmt]

\* ------------------------------------------------------------------------
\* State
\* ------------------------------------------------------------------------

VARIABLES
    engine,         \* release of the loaded GMT library
    gmt_version,    \* pygmt.__gmt_version__
    pc,             \* position in timestamp(): "idle", a line, or an outcome
    args,           \* the parameters of the running call
    kwdict,         \* the local kwdict
    calls,          \* the external calls of the running call, in order
    sessionOpen,    \* a Session has been entered and not yet exited
    raised          \* the exception that left timestamp()

vars == <<engine, gmt_version, pc, args, kwdict, calls, sessionOpen, raised>>

Init ==
    /\ engine \in Engines
    /\ gmt_version = VersionString(engine)
    /\ pc = "idle"
    /\ args = NoArgs
    /\ kwdict = NoKwdict
    /\ calls = <<>>
    /\ sessionOpen = FALSE
    /\ raised = NoError

\* fig.timestamp(text, label, justification, offset, font, timefmt)
Invoke(text, label, justification, offset, font, timefmt) ==
    /\ pc = "idle"
    /\ pc' = "l67"
    /\ args' = [text |-> text, label |-> label, justification |-> justification,
                offset |-> offset, font |-> font, timefmt |-> timefmt]
    /\ UNCHANGED <<engine, gmt_version, kwdict, calls, sessionOpen, raised>>

\* self._preprocess()
Preprocess ==
    /\ pc = "l67"
    /\ calls' = Append(calls, Ext("_preprocess", <<>>))
    /\ pc' = "l70"
    /\ UNCHANGED <<engine, gmt_version, args, kwdict, sessionOpen, raised>>

\* kwdict = {"T": True, "U": ""}
InitKwdict ==
    /\ pc = "l70"
    /\ kwdict' = [T |-> TRUE, U |-> <<>>]
    /\ pc' = "l71"
    /\ UNCHANGED <<engine, gmt_version, args, calls, sessionOpen, raised>>

\* if label is not None: kwdict["U"] += f"{label}"
AppendLabel ==
    /\ pc = "l71"
    /\ kwdict' = IF args.label.t # "none"
                 THEN [kwdict EXCEPT !.U = @ \o Str(args.label)]
                 ELSE kwdict
    /\ pc' = "l73"
    /\ UNCHANGED <<engine, gmt_version, args, calls, sessionOpen, raised>>

\* the justification put in front of what U holds
AppendJustification_prepend ==
    /\ pc = "l73"
    /\ kwdict' = [kwdict EXCEPT !.U = JustFragment(args.justification) \o @]
    /\ pc' = "l75"
    /\ UNCHANGED <<engine, gmt_version, args, calls, sessionOpen, raised>>

\* kwdict["U"] += f"+j{justification}"
AppendJustification ==
    /\ pc = "l73"
    /\ kwdict' = [kwdict EXCEPT !.U = @ \o JustFragment(args.justification)]
    /\ pc' = "l75"
    /\ UNCHANGED <<engine, gmt_version, args, calls, sessionOpen, raised>>

\* the if/else on is_nonstr_iter(offset)
AppendOffset ==
    /\ pc = "l75"
    /\ kwdict' = [kwdict EXCEPT !.U = @ \o OffsetFragment(args.offset, gmt_version)]
    /\ pc' = "l87"
    /\ UNCHANGED <<engine, gmt_version, args, calls, sessionOpen, raised>>

\* the length check made before the version check
CheckText_lengthFirst ==
    /\ pc = "l87"
    /\ IF args.text.t = "none"
       THEN /\ pc' = "l96"
            /\ UNCHANGED <<kwdict, raised>>
       ELSE IF TextTooLong(args.text)
       THEN /\ pc' = "raised"
            /\ raised' = GMTInvalidInput(TooLongMsg)
            /\ UNCHANGED kwdict
       ELSE IF TextRequiresNewer(gmt_version)
       THEN /\ pc' = "raised"
            /\ raised' = GMTInvalidInput(RequiresMsg)
            /\ UNCHANGED kwdict
       ELSE /\ pc' = "l96"
            /\ kwdict' = [kwdict EXCEPT !.U = @ \o TextFragment(args.text)]
            /\ UNCHANGED raised
    /\ UNCHANGED <<engine, gmt_version, args, calls, sessionOpen>>

\* the checks made inside the with block, after the session is entered
CheckText_inSession ==
    /\ pc = "l87"
    /\ IF args.text.t = "none"
       THEN /\ pc' = "l96"
            /\ UNCHANGED <<kwdict, raised, calls>>
       ELSE IF TextRequiresNewer(gmt_version)
       THEN /\ pc' = "raised"
            /\ raised' = GMTInvalidInput(RequiresMsg)
            /\ calls' = calls \o <<Ext("Session.__enter__", <<>>),
                                   Ext("Session.__exit__", <<>>)>>
            /\ UNCHANGED kwdict
       ELSE IF TextTooLong(args.text)
       THEN /\ pc' = "raised"
            /\ raised' = GMTInvalidInput(TooLongMsg)
            /\ calls' = calls \o <<Ext("Session.__enter__", <<>>),
                                   Ext("Session.__exit__", <<>>)>>
            /\ UNCHANGED kwdict
       ELSE /\ pc' = "l96"
            /\ kwdict' = [kwdict EXCEPT !.U = @ \o TextFragment(args.text)]
            /\ UNCHANGED <<raised, calls>>
    /\ UNCHANGED <<engine, gmt_version, args, sessionOpen>>

\* the text appended before it is checked, the command run before the raise
CheckText_afterPlot ==
    /\ pc = "l87"
    /\ IF args.text.t = "none"
       THEN /\ pc' = "l96"
            /\ UNCHANGED <<kwdict, raised, calls>>
       ELSE IF TextRequiresNewer(gmt_version) \/ TextTooLong(args.text)
       THEN /\ pc' = "raised"
            /\ raised' = GMTInvalidInput(IF TextRequiresNewer(gmt_version)
                                         THEN RequiresMsg ELSE TooLongMsg)
            /\ kwdict' = [kwdict EXCEPT !.U = @ \o TextFragment(args.text)]
            /\ calls' = calls \o
                 <<Ext("Session.__enter__", <<>>),
                   Ext("call_module",
                       <<"plot", kwdict', ConfDict(args.font, args.timefmt)>>),
                   Ext("Session.__exit__", <<>>)>>
       ELSE /\ pc' = "l96"
            /\ kwdict' = [kwdict EXCEPT !.U = @ \o TextFragment(args.text)]
            /\ UNCHANGED <<raised, calls>>
    /\ UNCHANGED <<engine, gmt_version, args, sessionOpen>>

\* if text is not None: the two checks, then kwdict["U"] += f"+t{text}"
CheckText ==
    /\ pc = "l87"
    /\ IF args.text.t = "none"
       THEN /\ pc' = "l96"
            /\ UNCHANGED <<kwdict, raised>>
       ELSE IF TextRequiresNewer(gmt_version)
       THEN /\ pc' = "raised"
            /\ raised' = GMTInvalidInput(RequiresMsg)
            /\ UNCHANGED kwdict
       ELSE IF TextTooLong(args.text)
       THEN /\ pc' = "raised"
            /\ raised' = GMTInvalidInput(TooLongMsg)
            /\ UNCHANGED kwdict
       ELSE /\ pc' = "l96"
            /\ kwdict' = [kwdict EXCEPT !.U = @ \o TextFragment(args.text)]
            /\ UNCHANGED raised
    /\ UNCHANGED <<engine, gmt_version, args, calls, sessionOpen>>

\* with Session() as lib:
SessionEnter ==
    /\ pc = "l96"
    /\ sessionOpen' = TRUE
    /\ calls' = Append(calls, Ext("Session.__enter__", <<>>))
    /\ pc' = "l97"
    /\ UNCHANGED <<engine, gmt_version, args, kwdict, raised>>

\* lib.call_module(module="plot", args=build_arg_string(kwdict, confdict=...)):
\* the engine runs the command or fails
CallModule ==
    /\ pc = "l97"
    /\ calls' = Append(calls,
                  Ext("call_module",
                      <<"plot", kwdict, ConfDict(args.font, args.timefmt)>>))
    /\ \E ok \in BOOLEAN : pc' = IF ok THEN "exit_ok" ELSE "exit_err"
    /\ UNCHANGED <<engine, gmt_version, args, kwdict, sessionOpen, raised>>

\* a session closed on the normal path only
SessionExit_leak ==
    /\ pc \in {"exit_ok", "exit_err"}
    /\ IF pc = "exit_ok"
       THEN /\ sessionOpen' = FALSE
            /\ calls' = Append(calls, Ext("Session.__exit__", <<>>))
            /\ pc' = "returned"
            /\ UNCHANGED raised
       ELSE /\ pc' = "raised"
            /\ raised' = EngineError
            /\ UNCHANGED <<sessionOpen, calls>>
    /\ UNCHANGED <<engine, gmt_version, args, kwdict>>

\* the end of the with block, reached normally or by the engine's exception
SessionExit ==
    /\ pc \in {"exit_ok", "exit_err"}
    /\ sessionOpen' = FALSE
    /\ calls' = Append(calls, Ext("Session.__exit__", <<>>))
    /\ IF pc = "exit_ok"
       THEN pc' = "returned" /\ UNCHANGED raised
       ELSE pc' = "raised" /\ raised' = EngineError
    /\ UNCHANGED <<engine, gmt_version, args, kwdict>>

\* the caller has the result; the locals of the call are gone
Finish ==
    /\ pc \in {"returned", "raised"}
    /\ pc' = "idle"
    /\ args' = NoArgs
    /\ kwdict' = NoKwdict
    /\ calls' = <<>>
    /\ raised' = NoError
    /\ UNCHANGED <<engine, gmt_version, sessionOpen>>

Next ==
    \/ \E text \in Texts, label \in Labels, justification \in Justifications,
          offset \in Offsets, font \in Fonts, timefmt \in Timefmts :
          Invoke(text, label, justification, offset, font, timefmt)
    \/ Preprocess
    \/ InitKwdict
    \/ AppendLabel
    \/ AppendJustification
    \/ AppendOffset
    \/ CheckText
    \/ SessionEnter
    \/ CallModule
    \/ SessionExit
    \/ Finish

Spec == Init /\ [][Next]_vars

\* ------------------------------------------------------------------------
\* Vocabulary of the properties
\* ------------------------------------------------------------------------

\* the loaded release as one number (every component is below 100)
EngineNum == engine[1] * 10000 + engine[2] * 100 + engine[3]

\* positions before the outcome of the text checks is known
BeforeCheck == {"idle", "l67", "l70", "l71", "l73", "l75", "l87"}

TextSupplied == args.text.t # "none"

TextLen == Len(Str(args.text))

UnsupportedFeatureError == GMTInvalidInput(RequiresMsg)

InvalidValueError == GMTInvalidInput(TooLongMsg)

\* the call ended in one of the two validation errors
FailedValidation ==
    pc = "raised" /\ raised \in {UnsupportedFeatureError, InvalidValueError}

\* the call got past the text checks
PassedValidation ==
    \/ pc \in {"l96", "l97", "exit_ok", "exit_err", "returned"}
    \/ pc = "raised" /\ raised = EngineError

IsPrefix(p, q) == Len(p) <= Len(q) /\ SubSeq(q, 1, Len(p)) = p

IsSuffix(p, q) ==
    Len(p) <= Len(q) /\ SubSeq(q, Len(q) - Len(p) + 1, Len(q)) = p

LabelPart == IF args.label.t = "none" THEN <<>> ELSE Str(args.label)

JustPart == <<"+", "j">> \o Str(args.justification)

TextPart == IF TextSupplied THEN <<"+", "t">> \o Str(args.text) ELSE <<>>

\* the entries of the call log made by call_module
ModuleCalls == { i \in 1..Len(calls) : calls[i].op = "call_module" }

OpCount(op) == Cardinality({ i \in 1..Len(calls) : calls[i].op = op })

\* ------------------------------------------------------------------------
\* Properties
\* ------------------------------------------------------------------------

\* C1: on every engine below 6.5.0 a supplied text, of any length, ends the
\* call with the "requires GMT>=6.5.0" error; the version is checked before
\* the length, so an over-long text is reported as unsupported too.
C1_OldEngineRejectsText ==
    (TextSupplied /\ EngineNum < 60500 /\ pc \notin BeforeCheck)
        => (pc = "raised" /\ raised = UnsupportedFeatureError)

C1_Witness ==
    /\ engine = <<6, 4, 0>>
    /\ TextLen > 64
    /\ pc = "raised"
    /\ raised = UnsupportedFeatureError

C3_UAssembly ==
    LET expected ==
            LabelPart \o JustPart \o OffsetFragment(args.offset, gmt_version)
                \o TextPart
    IN  /\ PassedValidation =>
            /\ kwdict.U = expected
            /\ IsPrefix(LabelPart \o JustPart, kwdict.U)
            /\ IsSuffix(TextPart, kwdict.U)
        /\ \A i \in ModuleCalls : calls[i].arg[2].U = expected

C3_Witness ==
    /\ pc = "returned"
    /\ args.label = S(PoweredBy)
    /\ args.justification = DefaultJustification
    /\ args.text = S(Hello)
    /\ IsPrefix(PoweredBy \o <<"+", "j", "B", "L">>, kwdict.U)
    /\ IsSuffix(<<"+", "t">> \o Hello, kwdict.U)

\* C4: right after the offset step U ends with the offset fragment: x/y for a
\* pair on every engine, v/v for a single value without "/" on an engine up to
\* 6.4.0, v alone on a later engine or when v already holds a "/".
C4_OffsetFragment ==
    LET o == args.offset
        frag ==
            IF o.t = "tuple" /\ Len(o.v) = 2
            THEN <<"+", "o">> \o Str(o.v[1]) \o <<"/">> \o Str(o.v[2])
            ELSE IF (\A i \in 1..Len(o.v) : o.v[i] # "/") /\ EngineNum <= 60400
            THEN <<"+", "o">> \o o.v \o <<"/">> \o o.v
            ELSE <<"+", "o">> \o o.v
    IN  pc = "l87" => kwdict.U = LabelPart \o JustPart \o frag

C4_Witness ==
    /\ pc = "l87"
    /\ engine = <<6, 4, 0>>
    /\ args.offset = S(<<"1", "0", "p">>)
    /\ IsSuffix(<<"+", "o", "1", "0", "p", "/", "1", "0", "p">>, kwdict.U)

\* C5 as stated: a call that ends in a validation error has made no external
\* call at all.
C5_NoExternalCallBeforeError == FailedValidation => calls = <<>>

\* C5: a call that ends in a validation error has made exactly one external
\* call, the figure preprocessing; nothing of the session has been called.
C5_OnlyPreprocessBeforeError ==
    FailedValidation => calls = <<Ext("_preprocess", <<>>)>>

C5_Witness ==
    /\ FailedValidation
    /\ raised = UnsupportedFeatureError
    /\ Len(calls) = 1

\* C6: a call that fails validation opens no session and never invokes
\* call_module.
C6_NoSessionOnFailure ==
    FailedValidation =>
        /\ ~sessionOpen
        /\ OpCount("Session.__enter__") = 0
        /\ OpCount("call_module") = 0

C6_Witness ==
    /\ FailedValidation
    /\ raised = InvalidValueError
    /\ TextLen = 65

\* C7: call_module receives T = true and the configuration FONT_LOGO = font,
\* FORMAT_TIME_STAMP = timefmt; U and the outcome of the checks are functions
\* of the other parameters and the engine only; the call without arguments
\* passes on every engine with U = "+jBL+o-54p/-54p" and the default
\* configuration.
C7_ConfigPassThrough ==
    /\ \A i \in ModuleCalls :
        /\ calls[i].arg[1] = "plot"
        /\ calls[i].arg[2].T = TRUE
        /\ calls[i].arg[3] =
             [FONT_LOGO |-> args.font, FORMAT_TIME_STAMP |-> args.timefmt]
        /\ calls[i].arg[2].U =
             LabelPart \o JustPart
                \o OffsetFragment(args.offset, gmt_version) \o TextPart
        /\ args = NoArgs =>
             /\ calls[i].arg[2].U =
                  <<"+", "j", "B", "L", "+", "o",
                    "-", "5", "4", "p", "/", "-", "5", "4", "p">>
             /\ calls[i].arg[3] =
                  [FONT_LOGO |-> "Helvetica,black",
                   FORMAT_TIME_STAMP |-> "%Y %b %d %H:%M:%S"]
    /\ pc \notin BeforeCheck =>
         (FailedValidation <=>
             (TextSupplied /\ (EngineNum < 60500 \/ TextLen > 64)))
    /\ pc = "returned" => ModuleCalls # {}

C7_Witness ==
    /\ engine = <<6, 4, 0>>
    /\ args = NoArgs
    /\ pc = "returned"
    /\ ModuleCalls # {}

\* C8: on an engine from 6.5.0 on a text of 64 or more characters is rejected
\* with the "must be less than 64 characters" error, and only a text of at
\* most 63 characters is accepted.
C8_LessThan64 ==
    (TextSupplied /\ EngineNum >= 60500 /\ pc \notin BeforeCheck)
        => /\ PassedValidation <=> TextLen <= 63
           /\ TextLen >= 64 => (pc = "raised" /\ raised = InvalidValueError)

\* C9: the two gates order versions by their numbers: on 6.10.0 a supplied
\* text of at most 64 characters is accepted and a single offset is not
\* duplicated; on 6.4.1 a single offset is not duplicated and a supplied text
\* is rejected.
C9_SemanticVersionOrder ==
    LET single == args.offset.t = "str" /\ ~Contains(args.offset.v, "/")
        plain == LabelPart \o JustPart \o <<"+", "o">> \o args.offset.v
    IN  /\ (engine = <<6, 10, 0>> /\ TextSupplied /\ TextLen <= 64
              /\ pc \notin BeforeCheck) => PassedValidation
        /\ (engine \in {<<6, 10, 0>>, <<6, 4, 1>>} /\ single /\ pc = "l87")
              => kwdict.U = plain
        /\ (engine = <<6, 4, 1>> /\ TextSupplied /\ pc \notin BeforeCheck)
              => (pc = "raised" /\ raised = UnsupportedFeatureError)

C9_Witness ==
    /\ engine = <<6, 10, 0>>
    /\ gmt_version = <<"6", ".", "1", "0", ".", "0">>
    /\ args.offset = S(<<"1", "0", "p">>)
    /\ args.text = S(Hello)
    /\ pc = "returned"
    /\ IsSuffix(<<"+", "o", "1", "0", "p", "+", "t">> \o Hello, kwdict.U)

\* C10: the preprocessing is the first external call of every call, made once
\* and before kwdict exists; a call that passes the checks then enters a
\* session, invokes call_module once with "plot" and the assembled options,
\* and leaves the session, whether the engine succeeds or fails; the session
\* is open only between these; there is no other external call.
C10_CallSequence ==
    LET full ==
            <<Ext("_preprocess", <<>>),
              Ext("Session.__enter__", <<>>),
              Ext("call_module",
                  <<"plot", kwdict, ConfDict(args.font, args.timefmt)>>),
              Ext("Session.__exit__", <<>>)>>
    IN  /\ pc \notin {"idle", "l67"} =>
            /\ IsPrefix(<<Ext("_preprocess", <<>>)>>, calls)
            /\ OpCount("_preprocess") = 1
        /\ kwdict # NoKwdict => OpCount("_preprocess") = 1
        /\ IsPrefix(calls, full)
        /\ (pc = "returned" \/ (pc = "raised" /\ raised = EngineError)) =>
            /\ calls = full
            /\ ~sessionOpen
        /\ sessionOpen =>
            /\ pc \in {"l97", "exit_ok", "exit_err"}
            /\ TextSupplied => (EngineNum >= 60500 /\ TextLen <= 64)
            /\ OpCount("Session.__enter__") = 1
            /\ OpCount("Session.__exit__") = 0
        /\ pc \in {"idle", "returned", "raised"} => ~sessionOpen

C10_Witness ==
    /\ pc = "raised"
    /\ raised = EngineError
    /\ ~sessionOpen
    /\ Len(calls) = 4
    /\ calls[3].op = "call_module"
    /\ calls[4].op = "Session.__exit__"

====
